---- MODULE Spec2Model ----
(***************************************************************************)
(* Session lifecycle and turn loop of src/5_Azure_MCP_Client.py, a         *)
(* Streamlit script.                                                       *)
(*                                                                         *)
(* Execution model.  The script is executed from its first line on every   *)
(* widget event and on every st.rerun(); st.session_state is the only      *)
(* state that survives a run.  A run ends at the last line, at st.stop()   *)
(* or at st.rerun().  A run that is blocked in loop.run_until_complete     *)
(* (client.get_tools() at line 432, mcp_agent.ainvoke at line 556) keeps   *)
(* the widgets it has already rendered live in the browser: the sidebar    *)
(* buttons (lines 271, 283) and the chat input (line 526, created without  *)
(* disabled=).  A widget event that arrives during such a call is queued;  *)
(* when the call returns or raises, the next st.* command of the run       *)
(* (st.write 434, st.markdown 564, status.update 455, st.error 574) raises *)
(* the framework's rerun exception, which derives from BaseException and   *)
(* passes through `except Exception`, and the script is run again for the  *)
(* queued event.  Statements between two blocking calls run without        *)
(* interleaving.                                                           *)
(*                                                                         *)
(* Strings whose prefix the code inspects (API key, server URL) are        *)
(* sequences of one-character strings; message contents are sequences of   *)
(* strings.                                                                *)
(***************************************************************************)
EXTENDS Integers, Sequences, FiniteSets, TLC

VARIABLES
    openai_key,       \* st.session_state.openai_key
    mcp_server_url,   \* st.session_state.mcp_server_url
    mcp_transport,    \* st.session_state.mcp_transport
    mcp_agent,        \* st.session_state.mcp_agent
    mcp_client,       \* st.session_state.mcp_client
    mcp_tools,        \* st.session_state.mcp_tools
    mcp_messages,     \* st.session_state.mcp_messages
    pc,               \* where the current run of the script stands
    pending,          \* widget event queued while the run is blocked
    try_again,        \* trigger value of the "Try Again" button for this run
    errors,           \* the list `errors` rendered by the Connect handler
    agent_messages,   \* the list passed to mcp_agent.ainvoke
    attempts,         \* history: initialisation attempts since the last Reset
    retries,          \* history: "Try Again" clicks since the last Reset
    prior,            \* history: the connection discarded by the last Reset
    event             \* history: the event handled by the last step

vars == <<openai_key, mcp_server_url, mcp_transport, mcp_agent, mcp_client,
          mcp_tools, mcp_messages, pc, pending, try_again, errors,
          agent_messages, attempts, retries, prior, event>>

session == <<openai_key, mcp_server_url, mcp_transport, mcp_agent, mcp_client,
             mcp_tools, mcp_messages>>

----------------------------------------------------------------------------
\* Bounds of the model.

MaxLog == 3          \* a turn is submitted only while the log is shorter
MaxRetries == 2      \* "Try Again" clicks explored per configuration

----------------------------------------------------------------------------
\* Values.

None == [tag |-> "None"]

NoPending == [kind |-> "none"]

SK == <<"s", "k", "-">>
HTTP == <<"h", "t", "t", "p", ":", "/", "/">>
HTTPS == <<"h", "t", "t", "p", "s", ":", "/", "/">>

\* What the user may type in the two text inputs.
KeyInputs == { <<>>, <<"s", "k", "-", "a">>, <<"k", "e", "y">> }
UrlInputs == { <<>>,
               <<"h", "t", "t", "p", ":", "/", "/", "a">>,
               <<"h", "t", "t", "p", "s", ":", "/", "/", "b">>,
               <<"f", "t", "p", ":", "/", "/", "b", "a", "d">> }
TransportOptions == {"sse", "streamable_http"}

UserTexts == { <<"q1">>, <<"q2">> }      \* non-empty chat inputs
Replies == { <<"r1">> }                  \* response["messages"][-1].content
Exceptions == { "boom" }                 \* str(e)
ToolNameLists == { <<>>, <<"kusto">> }   \* what a server may advertise

SYSTEM_PROMPT == <<"You are the Azure Data Explorer Incident Analyst.">>

\* str.startswith
StartsWith(s, p) == Len(s) >= Len(p) /\ SubSeq(s, 1, Len(p)) = p

----------------------------------------------------------------------------
\* The script's own computations.

KeysNeeded_OnlyKey(key, url) ==
    IF key = <<>> THEN {"openai"} ELSE {}

\* keys_needed, lines 292-296
KeysNeeded(key, url) ==
    (IF key = <<>> THEN {"openai"} ELSE {}) \cup
    (IF url = <<>> THEN {"mcp"} ELSE {})

Errors_NoUrlPrefix(needed, key, url) ==
    (IF "openai" \in needed
        THEN IF key = <<>> THEN <<"OpenAI API Key is required">>
             ELSE IF ~StartsWith(key, SK)
                  THEN <<"OpenAI API Key should start with 'sk-'">>
                  ELSE <<>>
        ELSE <<>>)
    \o
    (IF "mcp" \in needed
        THEN IF url = <<>> THEN <<"MCP Server URL is required">> ELSE <<>>
        ELSE <<>>)

Errors_HttpOnly(needed, key, url) ==
    (IF "openai" \in needed
        THEN IF key = <<>> THEN <<"OpenAI API Key is required">>
             ELSE IF ~StartsWith(key, SK)
                  THEN <<"OpenAI API Key should start with 'sk-'">>
                  ELSE <<>>
        ELSE <<>>)
    \o
    (IF "mcp" \in needed
        THEN IF url = <<>> THEN <<"MCP Server URL is required">>
             ELSE IF ~StartsWith(url, HTTP)
                  THEN <<"MCP Server URL must start with http:// or https://">>
                  ELSE <<>>
        ELSE <<>>)

\* the validation of the Connect handler, lines 365-379
Errors(needed, key, url) ==
    (IF "openai" \in needed
        THEN IF key = <<>> THEN <<"OpenAI API Key is required">>
             ELSE IF ~StartsWith(key, SK)
                  THEN <<"OpenAI API Key should start with 'sk-'">>
                  ELSE <<>>
        ELSE <<>>)
    \o
    (IF "mcp" \in needed
        THEN IF url = <<>> THEN <<"MCP Server URL is required">>
             ELSE IF ~(StartsWith(url, HTTP) \/ StartsWith(url, HTTPS))
                  THEN <<"MCP Server URL must start with http:// or https://">>
                  ELSE <<>>
        ELSE <<>>)

ScriptEntry_NoAgentCheck(key, url, agent) ==
    IF KeysNeeded(key, url) # {} THEN "form" ELSE "chat"

\* Where a run started from the first line arrives: st.stop() of the
\* configuration form (298, 392), the initialisation block (399), or the chat
\* interface (492-526).
ScriptEntry(key, url, agent) ==
    IF KeysNeeded(key, url) # {} THEN "form"
    ELSE IF agent = None THEN "init_client"
    ELSE "chat"

\* MultiServerMCPClient(mcp_config), lines 418-427
Client(url, transport) ==
    [tag |-> "client", url |-> url, transport |-> transport]

\* client.get_tools(): the descriptors the server of this client advertises
GetTools(client, names) ==
    [i \in 1..Len(names) |->
        [name |-> names[i], url |-> client.url, transport |-> client.transport]]

\* create_react_agent(llm, tools, prompt=SYSTEM_PROMPT), lines 438-449; the
\* model reads OPENAI_API_KEY, set at line 407
Agent(key, tools) ==
    [tag |-> "agent", key |-> key, tools |-> tools, prompt |-> SYSTEM_PROMPT]

AgentMessages_LastOnly(msgs) ==
    <<[role |-> "system", content |-> SYSTEM_PROMPT]>> \o
    (IF msgs = <<>> THEN <<>> ELSE
        <<[role |-> msgs[Len(msgs)].role, content |-> msgs[Len(msgs)].content]>>)

\* agent_messages, lines 548-553
AgentMessages(msgs) ==
    <<[role |-> "system", content |-> SYSTEM_PROMPT]>> \o
    [i \in 1..Len(msgs) |-> [role |-> msgs[i].role, content |-> msgs[i].content]]

\* error_msg, line 573
ErrorMsg(e) == <<"Error processing request: ", e>>

UserEntry(text) == [role |-> "user", content |-> text]
AssistantEntry(text) == [role |-> "assistant", content |-> text]

AppendError_Rollback(msgs, e) ==
    SubSeq(msgs, 1, Len(msgs) - 1) \o <<AssistantEntry(ErrorMsg(e))>>

\* the except branch of the turn, lines 572-580
AppendError(msgs, e) == Append(msgs, AssistantEntry(ErrorMsg(e)))

----------------------------------------------------------------------------
Init ==
    /\ openai_key = <<>>
    /\ mcp_server_url = <<>>
    /\ mcp_transport = "sse"
    /\ mcp_agent = None
    /\ mcp_client = None
    /\ mcp_tools = <<>>
    /\ mcp_messages = <<>>
    /\ pc = "form"
    /\ pending = NoPending
    /\ try_again = FALSE
    /\ errors = <<>>
    /\ agent_messages = <<>>
    /\ attempts = 0
    /\ retries = 0
    /\ prior = None
    /\ event = [kind |-> "start"]

\* A run that starts at the first line with the session state just written.
RunFromTop ==
    /\ pc' = ScriptEntry(openai_key', mcp_server_url', mcp_agent')
    /\ attempts' = IF pc' = "init_client" THEN attempts + 1 ELSE attempts

Idle == pc \in {"form", "failed", "chat"}
Blocked == pc \in {"init_tools", "turn"}

----------------------------------------------------------------------------
\* Handlers, from the point where the run reaches them.

ResetFields_KeepsTools ==
    /\ openai_key' = <<>>
    /\ mcp_server_url' = <<>>
    /\ mcp_transport' = "sse"
    /\ mcp_agent' = None
    /\ mcp_client' = None
    /\ mcp_tools' = mcp_tools
    /\ mcp_messages' = <<>>

ResetFields_KeepsAgent ==
    /\ openai_key' = <<>>
    /\ mcp_server_url' = <<>>
    /\ mcp_transport' = "sse"
    /\ mcp_agent' = mcp_agent
    /\ mcp_client' = None
    /\ mcp_tools' = <<>>
    /\ mcp_messages' = <<>>

ResetFields_KeepsUrl ==
    /\ openai_key' = <<>>
    /\ mcp_server_url' = mcp_server_url
    /\ mcp_transport' = "sse"
    /\ mcp_agent' = None
    /\ mcp_client' = None
    /\ mcp_tools' = <<>>
    /\ mcp_messages' = <<>>

\* the assignments of the Reset Connection handler, lines 272-278
ResetFields ==
    /\ openai_key' = <<>>
    /\ mcp_server_url' = <<>>
    /\ mcp_transport' = "sse"
    /\ mcp_agent' = None
    /\ mcp_client' = None
    /\ mcp_tools' = <<>>
    /\ mcp_messages' = <<>>

\* Reset Connection, lines 269-279, followed by the run st.rerun() starts
DoReset ==
    /\ prior' = IF mcp_agent # None
                   THEN [key |-> openai_key, url |-> mcp_server_url,
                         transport |-> mcp_transport, agent |-> mcp_agent,
                         tools |-> mcp_tools]
                   ELSE prior
    /\ ResetFields
    /\ pc' = ScriptEntry(openai_key', mcp_server_url', mcp_agent')
    /\ attempts' = 0
    /\ retries' = 0
    /\ pending' = NoPending
    /\ try_again' = FALSE
    /\ errors' = <<>>
    /\ agent_messages' = <<>>

DoClear_DropsAgent ==
    /\ mcp_messages' = <<>>
    /\ mcp_agent' = None
    /\ UNCHANGED <<openai_key, mcp_server_url, mcp_transport, mcp_client,
                   mcp_tools>>
    /\ RunFromTop
    /\ pending' = NoPending
    /\ try_again' = FALSE
    /\ errors' = <<>>
    /\ agent_messages' = <<>>
    /\ UNCHANGED <<retries, prior>>

\* Clear Chat, lines 282-285, followed by the run st.rerun() starts
DoClear ==
    /\ mcp_messages' = <<>>
    /\ UNCHANGED <<openai_key, mcp_server_url, mcp_transport, mcp_agent,
                   mcp_client, mcp_tools>>
    /\ RunFromTop
    /\ pending' = NoPending
    /\ try_again' = FALSE
    /\ errors' = <<>>
    /\ agent_messages' = <<>>
    /\ UNCHANGED <<retries, prior>>

\* chat input, lines 526-560: the user entry is appended, agent_messages is
\* built and the run blocks in mcp_agent.ainvoke
DoSubmit(text) ==
    /\ ScriptEntry(openai_key, mcp_server_url, mcp_agent) = "chat"
    /\ mcp_messages' = Append(mcp_messages, UserEntry(text))
    /\ agent_messages' = AgentMessages(mcp_messages')
    /\ pc' = "turn"
    /\ pending' = NoPending
    /\ UNCHANGED <<openai_key, mcp_server_url, mcp_transport, mcp_agent,
                   mcp_client, mcp_tools, try_again, errors, attempts,
                   retries, prior>>

ExceptBranch_ClearsConfig ==
    /\ openai_key' = <<>>
    /\ mcp_server_url' = <<>>
    /\ mcp_transport' = "sse"
    /\ mcp_agent' = None
    /\ mcp_client' = None
    /\ mcp_tools' = <<>>
    /\ UNCHANGED mcp_messages
    /\ try_again' = FALSE
    /\ RunFromTop

\* except branch of the initialisation, lines 454-482: with the Try Again
\* button reporting a click the handler (477-480) runs and st.rerun() starts
\* the script again; otherwise st.stop()
ExceptBranch ==
    IF try_again
    THEN /\ mcp_agent' = None
         /\ mcp_client' = None
         /\ mcp_tools' = <<>>
         /\ UNCHANGED <<openai_key, mcp_server_url, mcp_transport, mcp_messages>>
         /\ try_again' = FALSE
         /\ RunFromTop
    ELSE /\ pc' = "failed"
         /\ UNCHANGED <<session, try_again, attempts>>

----------------------------------------------------------------------------
\* Actions.

\* Connect button, lines 364-390, with the values of the form (305-337)
Connect(k, u, t) ==
    /\ pc = "form"
    /\ LET needed == KeysNeeded(openai_key, mcp_server_url)
           key == IF "openai" \in needed THEN k ELSE openai_key
           url == IF "mcp" \in needed THEN u ELSE mcp_server_url
           transport == IF "mcp" \in needed THEN t ELSE mcp_transport
           errs == Errors(needed, key, url)
       IN /\ event' = [kind |-> "connect", key |-> key, url |-> url,
                       transport |-> transport]
          /\ IF errs # <<>>
             THEN /\ errors' = errs
                  /\ UNCHANGED <<session, pc, attempts>>
             ELSE /\ errors' = <<>>
                  /\ openai_key' = key
                  /\ mcp_server_url' = url
                  /\ mcp_transport' = transport
                  /\ UNCHANGED <<mcp_agent, mcp_client, mcp_tools, mcp_messages>>
                  /\ RunFromTop
    /\ UNCHANGED <<pending, try_again, agent_messages, retries, prior>>

\* Reset Connection button, lines 269-279
ResetConnection ==
    /\ \/ Idle
       \/ pc = "interrupted" /\ pending.kind = "reset"
    /\ openai_key # <<>> \/ mcp_server_url # <<>>
    /\ event' = [kind |-> "reset",
                 full |-> (mcp_agent # None /\ mcp_tools # <<>> /\ mcp_messages # <<>>)]
    /\ DoReset

\* Clear Chat button, lines 282-285
ClearChat ==
    /\ \/ Idle
       \/ pc = "interrupted" /\ pending.kind = "clear"
    /\ mcp_messages # <<>>
    /\ event' = [kind |-> "clear"]
    /\ DoClear

\* Try Again button, line 476: the click starts a run of the script
TryAgain ==
    /\ pc = "failed"
    /\ retries < MaxRetries
    /\ retries' = retries + 1
    /\ UNCHANGED session
    /\ RunFromTop
    /\ try_again' = (pc' = "init_client")
    /\ event' = [kind |-> "try_again"]
    /\ UNCHANGED <<pending, errors, agent_messages, prior>>

\* st.chat_input, line 526
Submit(text) ==
    /\ \/ pc = "chat" /\ Len(mcp_messages) < MaxLog
       \/ pc = "interrupted" /\ pending.kind = "submit" /\ pending.text = text
    /\ event' = [kind |-> "submit", text |-> text]
    /\ DoSubmit(text)

\* A widget rendered by the blocked run is used: sidebar buttons (269-285,
\* rendered from the session state the run started with) or the chat input
ClickWhileBlocked(e) ==
    /\ Blocked
    /\ pending = NoPending
    /\ \/ e.kind = "reset" /\ (openai_key # <<>> \/ mcp_server_url # <<>>)
       \/ e.kind = "clear" /\ IF pc = "turn" THEN Len(mcp_messages) > 1
                                              ELSE mcp_messages # <<>>
       \/ e.kind = "submit" /\ pc = "turn" /\ Len(mcp_messages) < MaxLog
    /\ pending' = e
    /\ event' = [kind |-> "click", widget |-> e.kind]
    /\ UNCHANGED <<session, pc, try_again, errors, agent_messages, attempts,
                   retries, prior>>

\* The blocking call of a run with a queued event ends (outcome o); the next
\* st.* command aborts the run before it writes to the session state
Interrupted(o) ==
    /\ Blocked
    /\ pending # NoPending
    /\ pc' = "interrupted"
    /\ try_again' = FALSE
    /\ agent_messages' = <<>>
    /\ event' = [kind |-> "interrupted", at |-> pc, outcome |-> o]
    /\ UNCHANGED <<session, pending, errors, attempts, retries, prior>>

\* lines 425-428
CreateClient ==
    /\ pc = "init_client"
    /\ mcp_client' = Client(mcp_server_url, mcp_transport)
    /\ pc' = "init_tools"
    /\ event' = [kind |-> "client_created"]
    /\ UNCHANGED <<openai_key, mcp_server_url, mcp_transport, mcp_agent,
                   mcp_tools, mcp_messages, pending, try_again, errors,
                   agent_messages, attempts, retries, prior>>

\* MultiServerMCPClient raises
CreateClientFails ==
    /\ pc = "init_client"
    /\ ExceptBranch
    /\ event' = [kind |-> "init_failed", at |-> "client"]
    /\ UNCHANGED <<pending, errors, agent_messages, retries, prior>>

\* lines 430-434
FetchTools(names) ==
    /\ pc = "init_tools"
    /\ pending = NoPending
    /\ mcp_tools' = GetTools(mcp_client, names)
    /\ pc' = "init_agent"
    /\ event' = [kind |-> "tools_fetched"]
    /\ UNCHANGED <<openai_key, mcp_server_url, mcp_transport, mcp_agent,
                   mcp_client, mcp_messages, pending, try_again, errors,
                   agent_messages, attempts, retries, prior>>

\* client.get_tools() raises
FetchToolsFails ==
    /\ pc = "init_tools"
    /\ pending = NoPending
    /\ ExceptBranch
    /\ event' = [kind |-> "init_failed", at |-> "tools"]
    /\ UNCHANGED <<pending, errors, agent_messages, retries, prior>>

\* lines 436-452
CreateAgent ==
    /\ pc = "init_agent"
    /\ mcp_agent' = Agent(openai_key, mcp_tools)
    /\ UNCHANGED <<openai_key, mcp_server_url, mcp_transport, mcp_client,
                   mcp_tools, mcp_messages>>
    /\ try_again' = FALSE
    /\ RunFromTop
    /\ event' = [kind |-> "agent_created"]
    /\ UNCHANGED <<pending, errors, agent_messages, retries, prior>>

\* ChatOpenAI or create_react_agent raises
CreateAgentFails ==
    /\ pc = "init_agent"
    /\ ExceptBranch
    /\ event' = [kind |-> "init_failed", at |-> "agent"]
    /\ UNCHANGED <<pending, errors, agent_messages, retries, prior>>

\* lines 556-570
TurnReply(r) ==
    /\ pc = "turn"
    /\ pending = NoPending
    /\ mcp_messages' = Append(mcp_messages, AssistantEntry(r))
    /\ pc' = "chat"
    /\ agent_messages' = <<>>
    /\ event' = [kind |-> "agent_replied"]
    /\ UNCHANGED <<openai_key, mcp_server_url, mcp_transport, mcp_agent,
                   mcp_client, mcp_tools, pending, try_again, errors,
                   attempts, retries, prior>>

TurnError_DropsAgent(e) ==
    /\ pc = "turn"
    /\ pending = NoPending
    /\ mcp_messages' = AppendError(mcp_messages, e)
    /\ mcp_agent' = None
    /\ pc' = "chat"
    /\ agent_messages' = <<>>
    /\ event' = [kind |-> "agent_raised", e |-> e]
    /\ UNCHANGED <<openai_key, mcp_server_url, mcp_transport,
                   mcp_client, mcp_tools, pending, try_again, errors,
                   attempts, retries, prior>>

\* lines 572-583
TurnError(e) ==
    /\ pc = "turn"
    /\ pending = NoPending
    /\ mcp_messages' = AppendError(mcp_messages, e)
    /\ pc' = "chat"
    /\ agent_messages' = <<>>
    /\ event' = [kind |-> "agent_raised", e |-> e]
    /\ UNCHANGED <<openai_key, mcp_server_url, mcp_transport, mcp_agent,
                   mcp_client, mcp_tools, pending, try_again, errors,
                   attempts, retries, prior>>

PendingEvents ==
    {[kind |-> "reset"], [kind |-> "clear"]} \cup
    {[kind |-> "submit", text |-> t] : t \in UserTexts}

Next ==
    \/ \E k \in KeyInputs, u \in UrlInputs, t \in TransportOptions : Connect(k, u, t)
    \/ ResetConnection
    \/ ClearChat
    \/ TryAgain
    \/ \E text \in UserTexts : Submit(text)
    \/ \E e \in PendingEvents : ClickWhileBlocked(e)
    \/ \E o \in {"returned", "raised"} : Interrupted(o)
    \/ CreateClient
    \/ CreateClientFails
    \/ \E names \in ToolNameLists : FetchTools(names)
    \/ FetchToolsFails
    \/ CreateAgent
    \/ CreateAgentFails
    \/ \E r \in Replies : TurnReply(r)
    \/ \E e \in Exceptions : TurnError(e)

Spec == Init /\ [][Next]_vars

----------------------------------------------------------------------------
\* Properties.

InitPcs == {"init_client", "init_tools", "init_agent"}

Malformed(key, url) ==
    \/ key = <<>>
    \/ ~StartsWith(key, SK)
    \/ url = <<>>
    \/ ~(StartsWith(url, HTTP) \/ StartsWith(url, HTTPS))

\* C2: a Connect with a malformed configuration changes no field of the
\* Session Configuration, leaves the Agent Handle absent and the log length
\* unchanged.
C2_MalformedConnectRejected ==
    [][(event'.kind = "connect" /\ Malformed(event'.key, event'.url)) =>
          (/\ UNCHANGED <<openai_key, mcp_server_url, mcp_transport>>
           /\ mcp_agent' = None
           /\ Len(mcp_messages') = Len(mcp_messages))]_vars

C2_Witness ==
    /\ event.kind = "connect"
    /\ event.key = <<"s", "k", "-", "a">>
    /\ event.url = <<"f", "t", "p", ":", "/", "/", "b", "a", "d">>
    /\ errors = <<"MCP Server URL must start with http:// or https://">>
    /\ openai_key = <<>>
    /\ Len(mcp_messages) = 0

\* C3: the state a Reset leaves has credential, URL, Agent Handle, client,
\* tool list and Conversation Log all cleared; none keeps its pre-reset value.
C3_ResetClearsEverything ==
    event.kind = "reset" =>
        /\ openai_key = <<>>
        /\ mcp_server_url = <<>>
        /\ mcp_agent = None
        /\ mcp_client = None
        /\ mcp_tools = <<>>
        /\ mcp_messages = <<>>

C3_Witness == event.kind = "reset" /\ event.full /\ pc = "form"

\* The agent invocation of the turn in flight ended by raising.
InvocationFailed ==
    \/ event.kind = "agent_raised"
    \/ event.kind = "interrupted" /\ event.at = "turn" /\ event.outcome = "raised"

\* C4: when the agent invocation of a turn fails, the user's entry stays in
\* place and exactly one assistant entry, the error text, is appended after
\* it; nothing else in the log changes.
C4_FailedTurnAppendsOneError ==
    [][(pc = "turn" /\ InvocationFailed') =>
          (/\ Len(mcp_messages') = Len(mcp_messages) + 1
           /\ SubSeq(mcp_messages', 1, Len(mcp_messages)) = mcp_messages
           /\ mcp_messages[Len(mcp_messages)].role = "user"
           /\ (\E e \in Exceptions :
                 mcp_messages'[Len(mcp_messages')] = AssistantEntry(ErrorMsg(e))))]_vars

AppendsOne ==
    /\ Len(mcp_messages') = Len(mcp_messages) + 1
    /\ SubSeq(mcp_messages', 1, Len(mcp_messages)) = mcp_messages

FullReset ==
    /\ mcp_messages' = <<>>
    /\ openai_key' = <<>>
    /\ mcp_server_url' = <<>>
    /\ mcp_agent' = None
    /\ mcp_tools' = <<>>

ClearOnly ==
    /\ mcp_messages' = <<>>
    /\ UNCHANGED <<openai_key, mcp_server_url, mcp_transport, mcp_agent,
                   mcp_client, mcp_tools>>

\* C5 as stated: every change of the log appends one entry to an unchanged
\* prefix or is part of a full Reset.
C5_AppendOrResetOnly ==
    [][mcp_messages' # mcp_messages => (AppendsOne \/ FullReset)]_vars

\* C5 as amended: every change of the log appends one entry to an unchanged
\* prefix, is part of a full Reset, or is a Clear Chat that empties the log
\* and leaves configuration, Agent Handle, client and tool list unchanged.
C5_AppendResetOrClear ==
    [][mcp_messages' # mcp_messages => (AppendsOne \/ FullReset \/ ClearOnly)]_vars

C5_Witness ==
    /\ event.kind = "clear"
    /\ mcp_messages = <<>>
    /\ mcp_agent # None
    /\ openai_key # <<>>

\* C6: a user turn is appended and dispatched only when the previous turn has
\* resolved, that is when the entry before it is an assistant entry (or there
\* is none).
C6_OneTurnInFlight ==
    pc = "turn" =>
        \/ Len(mcp_messages) = 1
        \/ mcp_messages[Len(mcp_messages) - 1].role = "assistant"

\* C7: the agent is invoked with the system instruction first, followed by
\* the whole log in order, unchanged, ending with the user turn just submitted.
C7_FullHistoryReplayed ==
    pc = "turn" =>
        /\ Len(agent_messages) = Len(mcp_messages) + 1
        /\ agent_messages[1] = [role |-> "system", content |-> SYSTEM_PROMPT]
        /\ \A i \in 1..Len(mcp_messages) : agent_messages[i + 1] = mcp_messages[i]
        /\ mcp_messages[Len(mcp_messages)].role = "user"
        /\ (event.kind = "submit" =>
              agent_messages[Len(agent_messages)] = UserEntry(event.text))

C7_Witness ==
    /\ pc = "turn"
    /\ event.kind = "submit"
    /\ Len(mcp_messages) = 3
    /\ mcp_messages[1].content # mcp_messages[3].content

\* C8: a failure of the initialisation at client creation, tool fetch or
\* agent construction leaves credential, URL and transport as committed and
\* the Agent Handle absent; the script then shows the retry page or is already
\* retrying, and a further run goes to the initialisation, not to the form.
C8_InitFailureKeepsConfiguration ==
    [][(pc \in InitPcs) =>
          (/\ UNCHANGED <<openai_key, mcp_server_url, mcp_transport>>
           /\ (event'.kind = "init_failed" =>
                  (/\ mcp_agent' = None
                   /\ openai_key' # <<>>
                   /\ mcp_server_url' # <<>>
                   /\ pc' \in {"failed", "init_client"}
                   /\ ScriptEntry(openai_key', mcp_server_url', mcp_agent')
                         = "init_client")))]_vars

C8_Witness ==
    /\ event.kind = "init_failed"
    /\ event.at = "agent"
    /\ pc = "failed"
    /\ retries >= 1
    /\ mcp_transport = "streamable_http"

\* C9: per committed configuration the connect step runs once on its own;
\* every further run of it is preceded by a user retry action of its own.
C9_NoAutomaticRetry == attempts <= 1 + retries

Range(f) == {f[i] : i \in DOMAIN f}

\* C10: the Agent Handle and tool list in effect belong to the configuration
\* in effect; with the configuration cleared between two connects no Agent
\* Handle and no Tool Descriptor is held; after connecting with a different
\* configuration no tool of the earlier connection is present.
C10_NoResidueOfPriorConnection ==
    /\ mcp_agent # None =>
          /\ mcp_agent.key = openai_key
          /\ mcp_agent.tools = mcp_tools
          /\ \A t \in Range(mcp_tools) :
                t.url = mcp_server_url /\ t.transport = mcp_transport
    /\ (openai_key = <<>> \/ mcp_server_url = <<>>) =>
          mcp_agent = None /\ mcp_tools = <<>>
    /\ (/\ mcp_agent # None
        /\ prior # None
        /\ <<prior.url, prior.transport>> # <<mcp_server_url, mcp_transport>>) =>
          /\ Range(mcp_tools) \cap Range(prior.tools) = {}
          /\ Range(mcp_agent.tools) \cap Range(prior.tools) = {}

C10_Witness ==
    /\ mcp_agent # None
    /\ prior # None
    /\ prior.url # mcp_server_url
    /\ prior.tools # <<>>
    /\ mcp_tools # <<>>

\* C11: a Connect with a well-formed configuration commits credential, URL
\* and transport as entered in one step, makes the session ready to connect
\* once (configuration complete, Agent Handle absent, one initialisation
\* begun) and leaves the Conversation Log unchanged.
C11_WellFormedConnectCommits ==
    [][(pc = "form" /\ event'.kind = "connect"
                    /\ ~Malformed(event'.key, event'.url)) =>
          (/\ openai_key' = event'.key
           /\ mcp_server_url' = event'.url
           /\ mcp_transport' = event'.transport
           /\ mcp_agent' = None
           /\ KeysNeeded(openai_key', mcp_server_url') = {}
           /\ pc' = "init_client"
           /\ attempts' = attempts + 1
           /\ mcp_messages' = mcp_messages)]_vars

C11_Witness ==
    /\ event.kind = "connect"
    /\ pc = "init_client"
    /\ openai_key = <<"s", "k", "-", "a">>
    /\ mcp_server_url = <<"h", "t", "t", "p", "s", ":", "/", "/", "b">>
    /\ mcp_transport = "streamable_http"
    /\ attempts = 1

\* C12: a dispatched turn always resolves: the script leaves the in-flight
\* turn only by appending the assistant entry (reply or error) of that turn;
\* no user action abandons the turn before.
C12_TurnRunsToCompletion ==
    [][(pc = "turn" /\ pc' # "turn") =>
          (/\ Len(mcp_messages') = Len(mcp_messages) + 1
           /\ SubSeq(mcp_messages', 1, Len(mcp_messages)) = mcp_messages
           /\ mcp_messages'[Len(mcp_messages')].role = "assistant")]_vars

Alternates(msgs) ==
    \A i \in 1..Len(msgs) :
        msgs[i].role = (IF i % 2 = 1 THEN "user" ELSE "assistant")

\* C13: whenever no turn is in flight the log has even length and its roles
\* alternate user, assistant, starting with user: each turn cycle adds the
\* user entry and one assistant entry.
C13_LogAlternates ==
    pc \in {"form", "failed", "chat"} =>
        /\ Len(mcp_messages) % 2 = 0
        /\ Alternates(mcp_messages)

\* C14: processing a turn leaves credential, URL, transport, Agent Handle,
\* client and tool list unchanged; when the turn ends in a reply or an error
\* the script is back at the chat input with the same Agent Handle, so the
\* next user turn is accepted.
C14_TurnKeepsConnection ==
    [][(pc = "turn") =>
          (/\ UNCHANGED <<openai_key, mcp_server_url, mcp_transport,
                          mcp_agent, mcp_client, mcp_tools>>
           /\ (event'.kind \in {"agent_replied", "agent_raised"} =>
                 (/\ pc' = "chat"
                  /\ mcp_agent' # None
                  /\ ScriptEntry(openai_key', mcp_server_url', mcp_agent')
                        = "chat")))]_vars

C14_Witness ==
    /\ pc = "turn"
    /\ event.kind = "submit"
    /\ Len(mcp_messages) = 3
    /\ mcp_messages[2] = AssistantEntry(ErrorMsg("boom"))
    /\ mcp_agent # None

\* C15: a user turn is appended and dispatched only with the configuration
\* complete and the Agent Handle present; not in the unconfigured state and
\* not after a failed connect.
C15_TurnNeedsAgent ==
    [][(/\ Len(mcp_messages') > Len(mcp_messages)
        /\ mcp_messages'[Len(mcp_messages')].role = "user") =>
          (/\ openai_key # <<>>
           /\ mcp_server_url # <<>>
           /\ mcp_agent # None
           /\ pc \notin {"form", "failed"}
           /\ pc' = "turn"
           /\ UNCHANGED mcp_agent)]_vars

C15_Witness ==
    /\ pc = "turn"
    /\ Len(mcp_messages) = 1
    /\ attempts >= 2
    /\ retries >= 1

\* C16: in every state the script rests in, an absent Agent Handle comes with
\* an empty tool list and no client, also right after a failed initialisation.
C16_NoAgentNoTools ==
    (pc \in {"form", "failed", "chat"} /\ mcp_agent = None) =>
        mcp_tools = <<>> /\ mcp_client = None

\* C17: credential and URL are both empty or both non-empty.
C17_KeyAndUrlTogether ==
    (openai_key = <<>>) <=> (mcp_server_url = <<>>)

C17_Witness ==
    /\ prior # None
    /\ openai_key # <<>>
    /\ mcp_server_url # <<>>
    /\ pc = "failed"

\* C18: Clear Chat empties the log and changes nothing else, starts no new
\* connect, and the turn submitted next goes to the same Agent Handle with a
\* replayed history of the system instruction and that turn only.
C18_ClearChatOnlyClearsLog ==
    [][(/\ event'.kind = "clear" =>
             (/\ mcp_messages' = <<>>
              /\ UNCHANGED <<openai_key, mcp_server_url, mcp_transport,
                             mcp_agent, mcp_client, mcp_tools>>
              /\ attempts' = attempts
              /\ pc' = "chat"))
       /\ ((event.kind = "clear" /\ event'.kind = "submit") =>
             (/\ UNCHANGED <<mcp_agent, attempts>>
              /\ agent_messages' =
                    <<[role |-> "system", content |-> SYSTEM_PROMPT],
                      UserEntry(event'.text)>>))]_vars

C18_Witness ==
    /\ event.kind = "clear"
    /\ pc = "chat"
    /\ mcp_tools # <<>>
    /\ mcp_client # None
    /\ mcp_transport = "streamable_http"

====
